---- MODULE Spec2Model ----
(***************************************************************************)
(* A model of phone_parser/phone.py: the default store, parse, is_valid,   *)
(* the extension / normalization / segmentation helpers and Phone.format.  *)
(* A Python str is a sequence of one-character strings.                    *)
(***************************************************************************)
EXTENDS Integers, Sequences, FiniteSets, TLC

VARIABLES
    text,                   \* the argument of the calls of this behaviour
    default_country_code,   \* _default_country_code
    default_area_code,      \* _default_area_code
    ret,                    \* what the most recent call returned or raised
    out,                    \* the second result: format(...) / the re-normalization
    phone,                  \* the Phone that format is applied to
    fmt,                    \* the format argument of Phone.format
    frame,                  \* a call of parse in its own thread: position and locals
    setter                  \* a setter call in another thread: position and argument

vars == <<text, default_country_code, default_area_code, ret, out, phone, fmt,
          frame, setter>>

(***************************************************************************)
(* Bounds of the model.                                                    *)
(***************************************************************************)
MaxLen == 4
MaxNormLen == 4
MaxExtLen == 4
MaxFmtLen == 4
MaxFieldLen == 2

(***************************************************************************)
(* Python values.                                                          *)
(***************************************************************************)
None == <<"None">>
NL == "\n"
Digits == {"0", "1", "2", "3", "4", "5", "6", "7", "8", "9"}
Whitespace == {" ", NL}

\* All sequences over S of length at most n.
StrUpTo(S, n) == UNION {[1..k -> S] : k \in 0..n}

\* s[i:] with i 0-based, as Python slices.
From(s, i) == IF i >= Len(s) THEN <<>> ELSE SubSeq(s, i + 1, Len(s))
\* s[:i]
Upto(s, i) == IF i <= 0 THEN <<>> ELSE SubSeq(s, 1, IF i > Len(s) THEN Len(s) ELSE i)

\* str.startswith
StartsWith(s, p) == Len(p) <= Len(s) /\ SubSeq(s, 1, Len(p)) = p

\* p occurs in s at 1-based position i
OccursAt(s, p, i) == i >= 1 /\ i + Len(p) - 1 <= Len(s) /\ SubSeq(s, i, i + Len(p) - 1) = p

\* str.strip() leaves nothing
IsBlank(s) == \A i \in 1..Len(s) : s[i] \in Whitespace

\* str.lstrip("0")
RECURSIVE lstrip0(_)
lstrip0(s) == IF s # <<>> /\ s[1] = "0" THEN lstrip0(Tail(s)) ELSE s

AllDigits(s) == \A i \in 1..Len(s) : s[i] \in Digits

(***************************************************************************)
(* COMMON_EXTENSIONS = (ext|ex|x|xt|#|:)+[^0-9]*([-0-9]{1,})*#?$           *)
(***************************************************************************)
\* the marker alternatives, in the order the pattern lists them
ExtMarkers == << <<"e","x","t">>, <<"e","x">>, <<"x">>, <<"x","t">>, <<"#">>, <<":">> >>

\* [^0-9]*([-0-9]{1,})*#? matches the whole of t
IsExtTail(t) ==
    \E f \in 0..Len(t) : \E d \in f..Len(t) :
        /\ \A i \in 1..f : t[i] \notin Digits
        /\ \A i \in (f + 1)..d : t[i] \in Digits \cup {"-"}
        /\ \/ d = Len(t)
           \/ d + 1 = Len(t) /\ t[Len(t)] = "#"

\* the pattern matches s[i..e] (1-based, inclusive) with the $ at e
ExtMatchesSpan(s, i, e) ==
    \E k \in 1..Len(ExtMarkers) :
        /\ OccursAt(s, ExtMarkers[k], i)
        /\ i + Len(ExtMarkers[k]) - 1 <= e
        /\ IsExtTail(SubSeq(s, i + Len(ExtMarkers[k]), e))

\* $ matches at the end of the string and before a newline that ends it
DollarEnds(s) == {Len(s)} \cup (IF s # <<>> /\ s[Len(s)] = NL THEN {Len(s) - 1} ELSE {})

\* regex.search: the leftmost start, and for it the end the greedy match reaches
ExtSearch(s) ==
    LET starts == {i \in 1..Len(s) : \E e \in DollarEnds(s) : ExtMatchesSpan(s, i, e)}
    IN  IF starts = {} THEN None
        ELSE LET i == CHOOSE j \in starts : \A k \in starts : j <= k
                 e == IF ExtMatchesSpan(s, i, Len(s)) THEN Len(s) ELSE Len(s) - 1
             IN  <<i, e>>

\* _extract_extension: (clean_number, extension)
_extract_extension(phone_string) ==
    LET m == ExtSearch(phone_string)
    IN  IF m # None
        THEN [clean_number |-> SubSeq(phone_string, 1, m[1] - 1)
                               \o SubSeq(phone_string, m[2] + 1, Len(phone_string)),
              extension |-> SubSeq(phone_string, m[1], m[2])]
        ELSE [clean_number |-> phone_string, extension |-> <<>>]

(***************************************************************************)
(* COMMON_EXTRAS = (\(0\)|[^0-9+]|^\+?00?) and EXTRA_REPLACEMENTS          *)
(***************************************************************************)
\* the length of the match of COMMON_EXTRAS at 1-based position i, 0 if none
ExtrasMatchLen(s, i) ==
    IF OccursAt(s, <<"(", "0", ")">>, i) THEN 3
    ELSE IF i <= Len(s) /\ s[i] \notin Digits \cup {"+"} THEN 1
    ELSE IF i = 1 /\ OccursAt(s, <<"+", "0", "0">>, 1) THEN 3
    ELSE IF i = 1 /\ OccursAt(s, <<"+", "0">>, 1) THEN 2
    ELSE IF i = 1 /\ OccursAt(s, <<"0", "0">>, 1) THEN 2
    ELSE IF i = 1 /\ OccursAt(s, <<"0">>, 1) THEN 1
    ELSE 0

\* regex.findall: the matched texts, left to right, non-overlapping
RECURSIVE ExtrasFindAllFrom(_, _)
ExtrasFindAllFrom(s, i) ==
    IF i > Len(s) THEN <<>>
    ELSE LET n == ExtrasMatchLen(s, i)
         IN  IF n = 0 THEN ExtrasFindAllFrom(s, i + 1)
             ELSE <<SubSeq(s, i, i + n - 1)>> \o ExtrasFindAllFrom(s, i + n)

ExtrasFindAll(s) == ExtrasFindAllFrom(s, 1)

\* EXTRA_REPLACEMENTS.get(match, "")
EXTRA_REPLACEMENTS(match) ==
    IF match \in { <<"(", "0", ")">>, <<"0", "0">>, <<"+", "0", "0">>, <<"+", "0">> }
    THEN <<"+">>
    ELSE <<>>

\* regex.sub(replacement, s, count=1): the first match in s, replaced
ExtrasSubFirst(replacement, s) ==
    LET hits == {i \in 1..Len(s) : ExtrasMatchLen(s, i) > 0}
    IN  IF hits = {} THEN s
        ELSE LET i == CHOOSE j \in hits : \A k \in hits : j <= k
             IN  SubSeq(s, 1, i - 1) \o replacement
                 \o SubSeq(s, i + ExtrasMatchLen(s, i), Len(s))

\* the loop of _normalize over the matches found in the ORIGINAL string
RECURSIVE NormalizeLoop(_, _)
NormalizeLoop(matches, result) ==
    IF matches = <<>> THEN result
    ELSE NormalizeLoop(Tail(matches),
                       ExtrasSubFirst(EXTRA_REPLACEMENTS(Head(matches)), result))

_normalize(phone_string) == NormalizeLoop(ExtrasFindAll(phone_string), phone_string)

(***************************************************************************)
(* Phone: the dataclass and its formatting.                                *)
(***************************************************************************)
\* the default of Phone.n1_length
DefaultN1Length == 3

Phone(number, area_code, country_code, extension) ==
    [number |-> number, area_code |-> area_code, country_code |-> country_code,
     extension |-> extension, n1_length |-> DefaultN1Length]

number1(self) == Upto(self.number, self.n1_length)
number2(self) == From(self.number, self.n1_length)
area_code_long(self) == IF self.area_code # <<>> THEN <<"0">> \o self.area_code ELSE <<>>

FormatTokenChars == {"c", "a", "A", "n", "f", "l", "x"}

\* FORMAT_TOKENS = (%[caAnflx]), regex.findall(pattern)
RECURSIVE TokensFindAllFrom(_, _)
TokensFindAllFrom(s, i) ==
    IF i >= Len(s) THEN <<>>
    ELSE IF s[i] = "%" /\ s[i + 1] \in FormatTokenChars
         THEN <<SubSeq(s, i, i + 1)>> \o TokensFindAllFrom(s, i + 2)
         ELSE TokensFindAllFrom(s, i + 1)

\* the replacements dict of _format_number, replacements.get(match, "")
Replacement(self, match) ==
    CASE match[2] = "c" -> self.country_code
      [] match[2] = "a" -> self.area_code
      [] match[2] = "A" -> area_code_long(self)
      [] match[2] = "n" -> self.number
      [] match[2] = "f" -> number1(self)
      [] match[2] = "l" -> number2(self)
      [] match[2] = "x" -> self.extension
      [] OTHER -> <<>>

\* str.replace(old, new, 1): the first occurrence of old in s, replaced
ReplaceFirst(s, old, new) ==
    LET hits == {i \in 1..Len(s) : OccursAt(s, old, i)}
    IN  IF hits = {} THEN s
        ELSE LET i == CHOOSE j \in hits : \A k \in hits : j <= k
             IN  SubSeq(s, 1, i - 1) \o new \o SubSeq(s, i + Len(old), Len(s))

\* re.sub of ^(\+ \+)|^(\+\+) by "+"
_remove_useless_plus(formatted) ==
    IF StartsWith(formatted, <<"+", " ", "+">>) THEN <<"+">> \o From(formatted, 3)
    ELSE IF StartsWith(formatted, <<"+", "+">>) THEN <<"+">> \o From(formatted, 2)
    ELSE formatted

\* the loop of _format_number over the tokens found in the pattern
RECURSIVE FormatLoop(_, _, _)
FormatLoop(self, matches, result) ==
    IF matches = <<>> THEN result
    ELSE FormatLoop(self, Tail(matches),
                    ReplaceFirst(result, Head(matches), Replacement(self, Head(matches))))

_format_number(self, pattern) ==
    _remove_useless_plus(FormatLoop(self, TokensFindAllFrom(pattern, 1), pattern))

\* the names of NAMED_FORMATS, as strings of characters
NameDefault == <<"d", "e", "f", "a", "u", "l", "t">>
NameDefaultWithExtension == NameDefault \o <<"_", "w", "i", "t", "h", "_", "e", "x", "t", "e", "n", "s", "i", "o", "n">>
NameEurope == <<"e", "u", "r", "o", "p", "e">>
NameUs == <<"u", "s">>

\* NAMED_FORMATS.get(fmt, fmt)
NAMED_FORMATS(f) ==
    IF f = NameDefault THEN <<"+", "%", "c", "%", "a", "%", "n">>
    ELSE IF f = NameDefaultWithExtension THEN <<"+", "%", "c", "%", "a", "%", "n", "%", "x">>
    ELSE IF f = NameEurope
         THEN <<"+", "%", "c", " ", "(", "0", ")", " ", "%", "a", " ", "%", "f", " ", "%", "l">>
    ELSE IF f = NameUs THEN <<"(", "%", "a", ")", " ", "%", "f", "-", "%", "l">>
    ELSE f

format(self, f) == _format_number(self, NAMED_FORMATS(f))

(***************************************************************************)
(* phone_parser.country: the registry that phone.py imports, modelled from *)
(* sections 3 and 4.1 of the specification over a table of two countries,  *)
(* one dialing code a prefix of the other.  NoCountry stands for the None  *)
(* of a failed lookup.                                                     *)
(***************************************************************************)
NoCountry == [name |-> "", country_code |-> <<>>, area_codes |-> {}, lengths |-> {}]

Countries ==
    { [name |-> "Aland", country_code |-> <<"1">>,
       area_codes |-> { <<"1">>, <<"1", "1">> }, lengths |-> {2, 3, 4}],
      [name |-> "Borduria", country_code |-> <<"1", "0">>,
       area_codes |-> { <<"1", "1">> }, lengths |-> {1, 2, 3}] }

\* CountryRegistry.find_by_code: exact match of the dialing code
find_by_code(code) ==
    IF \E c \in Countries : c.country_code = code
    THEN CHOOSE c \in Countries : c.country_code = code
    ELSE NoCountry

\* CountryRegistry.detect_from_number: the longest dialing code that follows
\* the "+" of the text, else the country of the default code, else nothing
detect_from_number(phone_string, default_code) ==
    LET hits == {c \in Countries : StartsWith(phone_string, <<"+">> \o c.country_code)}
    IN  IF hits # {}
        THEN CHOOSE c \in hits : \A d \in hits : Len(d.country_code) <= Len(c.country_code)
        ELSE IF default_code # None /\ default_code # <<>>
             THEN find_by_code(default_code)
             ELSE NoCountry

\* country.country_code_regexp().sub("0", s): the "+<code>" prefix becomes "0"
country_code_sub0(country, s) ==
    IF StartsWith(s, <<"+">> \o country.country_code)
    THEN <<"0">> \o From(s, 1 + Len(country.country_code))
    ELSE s

\* country.detect_format: a string of digits of a recognized national length
detect_format(country, working_string) ==
    IF AllDigits(working_string) /\ Len(working_string) \in country.lengths
    THEN <<"national">>
    ELSE None

\* country.area_code_regexp().match(s): the longest area code s begins with
area_code_match(country, s) ==
    LET hits == {a \in country.area_codes : StartsWith(s, a)}
    IN  IF hits = {} THEN <<>>
        ELSE CHOOSE a \in hits : \A b \in hits : Len(b) <= Len(a)

(***************************************************************************)
(* parse and is_valid.  A call ends in one of                              *)
(*   [kind |-> "none"]                   it returned None                  *)
(*   [kind |-> "phone", val |-> Phone]   it returned a Phone               *)
(*   [kind |-> "parts", ...]             _split_to_parts returned          *)
(*   [kind |-> "bool", val |-> b]        is_valid returned b               *)
(*   [kind |-> "raise", exc, msg]        it raised                         *)
(***************************************************************************)
Raise(msg) == [kind |-> "raise", exc |-> "ValueError", msg |-> msg]

MsgCountry == "Must specify country code"
MsgCountryOrDefault == "Must specify country code or set default"
MsgFormat == "Invalid phone number format for country "
MsgArea == "Must specify area code or set default"
MsgNumber == "Must specify phone number"

\* the two branches of _split_to_parts after the format check
SegmentIgnoringPrefix(country, has_country_prefix, working_string) ==
    LET working_no_zero == lstrip0(working_string)
        area_code == area_code_match(country, working_no_zero)
    IN  [number |-> IF area_code # <<>> THEN From(working_no_zero, Len(area_code))
                    ELSE working_no_zero,
         area_code |-> area_code]

Segment(country, has_country_prefix, working_string) ==
    IF has_country_prefix
    THEN LET working_no_zero == lstrip0(working_string)
             area_code == area_code_match(country, working_no_zero)
         IN  [number |-> IF area_code # <<>> THEN From(working_no_zero, Len(area_code))
                         ELSE working_no_zero,
              area_code |-> area_code]
    ELSE [number |-> lstrip0(working_string), area_code |-> <<>>]

_split_to_parts(phone_string) ==
    LET country == detect_from_number(phone_string, default_country_code)
    IN  IF country = NoCountry THEN Raise(MsgCountry)
        ELSE LET has_country_prefix == StartsWith(phone_string, <<"+">> \o country.country_code)
                 working_string == country_code_sub0(country, phone_string)
                 format_type == detect_format(country, working_string)
             IN  IF format_type = None THEN Raise(MsgFormat \o country.name)
                 ELSE LET seg == Segment(country, has_country_prefix, working_string)
                      IN  [kind |-> "parts", number |-> seg.number,
                           area_code |-> seg.area_code,
                           country_code |-> <<"+">> \o country.country_code]

\* a Python str or None, tested as a condition
Truthy(v) == v # None /\ v # <<>>

\* lines 238-262 of parse with the number check dropped
ApplyDefaultsNoNumberCheck(number, area_code, country_code, extension) ==
    IF country_code = <<>> /\ ~Truthy(default_country_code) THEN Raise(MsgCountryOrDefault)
    ELSE IF area_code = <<>> /\ ~Truthy(default_area_code) THEN Raise(MsgArea)
    ELSE [kind |-> "phone",
          val |-> Phone(number,
                        IF area_code = <<>> THEN default_area_code ELSE area_code,
                        IF country_code = <<>> THEN <<"+">> \o default_country_code
                        ELSE country_code,
                        extension)]

\* lines 238-262 of parse with the number checked before the area code
ApplyDefaultsNumberFirst(number, area_code, country_code, extension) ==
    IF country_code = <<>> /\ ~Truthy(default_country_code) THEN Raise(MsgCountryOrDefault)
    ELSE IF number = <<>> THEN Raise(MsgNumber)
    ELSE IF area_code = <<>> /\ ~Truthy(default_area_code) THEN Raise(MsgArea)
    ELSE [kind |-> "phone",
          val |-> Phone(number,
                        IF area_code = <<>> THEN default_area_code ELSE area_code,
                        IF country_code = <<>> THEN <<"+">> \o default_country_code
                        ELSE country_code,
                        extension)]

\* lines 238-262 of parse: the defaults, the checks, the Phone
ApplyDefaults(number, area_code, country_code, extension) ==
    IF country_code = <<>> /\ ~Truthy(default_country_code) THEN Raise(MsgCountryOrDefault)
    ELSE IF area_code = <<>> /\ ~Truthy(default_area_code) THEN Raise(MsgArea)
    ELSE IF number = <<>> THEN Raise(MsgNumber)
    ELSE [kind |-> "phone",
          val |-> Phone(number,
                        IF area_code = <<>> THEN default_area_code ELSE area_code,
                        IF country_code = <<>> THEN <<"+">> \o default_country_code
                        ELSE country_code,
                        extension)]

parse(phone_string) ==
    IF IsBlank(phone_string) THEN [kind |-> "none"]
    ELSE LET ex == _extract_extension(phone_string)
             clean_number == _normalize(ex.clean_number)
             parts == _split_to_parts(clean_number)
         IN  IF parts.kind = "raise" THEN parts
             ELSE ApplyDefaults(parts.number, parts.area_code, parts.country_code,
                                ex.extension)

\* is_valid without its try/except
is_valid_uncaught(phone_string) ==
    LET r == parse(phone_string)
    IN  IF r.kind = "raise" THEN r ELSE [kind |-> "bool", val |-> r.kind # "none"]

is_valid(phone_string) ==
    LET r == parse(phone_string)
    IN  IF r.kind = "raise"
        THEN IF r.exc = "ValueError" THEN [kind |-> "bool", val |-> FALSE] ELSE r
        ELSE [kind |-> "bool", val |-> r.kind # "none"]

(***************************************************************************)
(* The calls of a client: the setters of the default store, parse,         *)
(* is_valid and str() of the Phone that parse returned.                    *)
(***************************************************************************)
\* the characters of the texts parsed
TextAlphabet == {"0", "1", "+", " ", "x"}
\* the codes a client sets: a known dialing code, an unknown one, "" to reset
CountryCodeArgs == { <<>>, <<"1">>, <<"1", "1">> }
\* the setter takes any str: an area code, "" to reset, a text that is no code
AreaCodeArgs == { <<>>, <<"1">>, <<"%", "n">> }

\* no call of parse under way, no setter call under way
NoFrame == [pc |-> "idle", number |-> <<>>, area_code |-> <<>>, country_code |-> <<>>,
            extension |-> <<>>]
IdleSetter == [pc |-> "idle", name |-> "", code |-> <<>>]

NoCall == [op |-> "none", res |-> [kind |-> "none"]]

Init ==
    /\ text \in StrUpTo(TextAlphabet, MaxLen)
    /\ default_country_code = None
    /\ default_area_code = None
    /\ ret = NoCall
    /\ out = None
    /\ phone = None
    /\ fmt = None
    /\ frame = NoFrame
    /\ setter = IdleSetter

set_default_country_code(code) ==
    /\ default_country_code' = code
    /\ ret' = [op |-> "set_default_country_code", res |-> [kind |-> "str", val |-> code]]
    /\ out' = None
    /\ UNCHANGED <<text, default_area_code, phone, fmt, frame, setter>>

set_default_area_code(code) ==
    /\ default_area_code' = code
    /\ ret' = [op |-> "set_default_area_code", res |-> [kind |-> "str", val |-> code]]
    /\ out' = None
    /\ UNCHANGED <<text, default_country_code, phone, fmt, frame, setter>>

Parse ==
    /\ ret' = [op |-> "parse", res |-> parse(text)]
    /\ out' = None
    /\ UNCHANGED <<text, default_country_code, default_area_code, phone, fmt, frame, setter>>

IsValid ==
    /\ ret' = [op |-> "is_valid", res |-> is_valid(text)]
    /\ out' = None
    /\ UNCHANGED <<text, default_country_code, default_area_code, phone, fmt, frame, setter>>

\* Phone.__str__ of the Phone the last call of parse returned
Str ==
    /\ ret.op = "parse"
    /\ ret.res.kind = "phone"
    /\ out' = format(ret.res.val, NameDefault)
    /\ UNCHANGED <<text, default_country_code, default_area_code, ret, phone, fmt, frame, setter>>

Next ==
    \/ \E code \in CountryCodeArgs : set_default_country_code(code)
    \/ \E code \in AreaCodeArgs : set_default_area_code(code)
    \/ Parse
    \/ IsValid
    \/ Str

Spec == Init /\ [][Next]_vars

(***************************************************************************)
(* What the claims speak of, for the text and the store of a state.        *)
(***************************************************************************)
\* the working text of parse after extension extraction and normalization
NormalizedText == _normalize(_extract_extension(text).clean_number)
\* some dialing code of the table follows the "+" of the normalized text
DetectedByPrefix ==
    \E c \in Countries : StartsWith(NormalizedText, <<"+">> \o c.country_code)
DetectedCountry == detect_from_number(NormalizedText, default_country_code)
HasCountryPrefix == StartsWith(NormalizedText, <<"+">> \o DetectedCountry.country_code)
WorkingString == country_code_sub0(DetectedCountry, NormalizedText)
FormatRecognized == detect_format(DetectedCountry, WorkingString) # None
Segmented == Segment(DetectedCountry, HasCountryPrefix, WorkingString)

ParseReturned == ret.op = "parse" /\ ret.res.kind = "phone"
ParseRaised(msg) == ret.op = "parse" /\ ret.res = Raise(msg)

(***************************************************************************)
(* C1: is_valid(text) returns true exactly when parse(text) returns a      *)
(* Phone; it returns false when parse returns None and when parse raises   *)
(* any of its errors, and is_valid itself never raises.                    *)
(***************************************************************************)
C1_IsValidIffParseReturnsPhone ==
    ret.op = "is_valid" =>
        /\ ret.res.kind = "bool"
        /\ ret.res.val = (parse(text).kind = "phone")
        /\ parse(text).kind \in {"none", "raise"} => ret.res.val = FALSE

\* is_valid answered false for a text on which parse raises the area-code error
C1_Witness ==
    /\ ret.op = "is_valid"
    /\ parse(text) = Raise(MsgArea)
    /\ ret.res = [kind |-> "bool", val |-> FALSE]

(***************************************************************************)
(* C2: every Phone that parse returns has a country_code that is "+"       *)
(* followed by the (non-empty) dialing code of the detected country and a  *)
(* non-empty number; when the segmentation leaves the number empty, parse  *)
(* raises instead of returning a Phone.                                    *)
(***************************************************************************)
C2_ResultHasCountryAndNumber ==
    ret.op = "parse" =>
        /\ ret.res.kind = "phone" =>
              /\ ret.res.val.country_code = <<"+">> \o DetectedCountry.country_code
              /\ DetectedCountry.country_code # <<>>
              /\ ret.res.val.number # <<>>
        /\ (/\ ~IsBlank(text)
            /\ DetectedCountry # NoCountry
            /\ FormatRecognized
            /\ Segmented.number = <<>>) => ret.res.kind = "raise"

\* parse raised the number error: country and area code were there, the number empty
C2_Witness ==
    /\ ParseRaised(MsgNumber)
    /\ DetectedCountry # NoCountry
    /\ Segmented.area_code # <<>>
    /\ Segmented.number = <<>>

(***************************************************************************)
(* C4: when the default country code is a known dialing code C and the     *)
(* default area code is a non-empty A, and no dialing code of the table is *)
(* found at the head of the normalized text, and the format is recognized  *)
(* and the number is non-empty, parse returns country_code "+"C, area_code *)
(* A and the whole working string, leading zeros stripped, as the number.  *)
(* A default that is "" acts as one that was never set: the same error.    *)
(***************************************************************************)
C4_DefaultFallback ==
    (ret.op = "parse" /\ ~IsBlank(text) /\ ~DetectedByPrefix) =>
        /\ (/\ find_by_code(default_country_code) # NoCountry
            /\ default_area_code \notin {None, <<>>}
            /\ FormatRecognized
            /\ lstrip0(WorkingString) # <<>>)
           => /\ ret.res.kind = "phone"
              /\ ret.res.val.country_code = <<"+">> \o default_country_code
              /\ ret.res.val.area_code = default_area_code
              /\ ret.res.val.number = lstrip0(WorkingString)
        /\ default_country_code \in {None, <<>>} => ret.res = Raise(MsgCountry)
        /\ (/\ find_by_code(default_country_code) # NoCountry
            /\ default_area_code \in {None, <<>>}
            /\ FormatRecognized)
           => ret.res = Raise(MsgArea)

\* both defaults used, and leading zeros stripped from the working string
C4_Witness ==
    /\ ParseReturned
    /\ ~DetectedByPrefix
    /\ default_area_code = <<"1">>
    /\ ret.res.val.area_code = default_area_code
    /\ ret.res.val.country_code = <<"+">> \o default_country_code
    /\ ret.res.val.number # WorkingString

(***************************************************************************)
(* C6: str() of a Phone that parse returned, whatever the default store    *)
(* holds, is "+", the digits of the dialing code, the area_code and the    *)
(* number of the Phone, with one "+" at the head and nothing else.         *)
(***************************************************************************)
C6_DefaultFormatRoundTrip ==
    (ParseReturned /\ out # None) =>
        out = <<"+">> \o DetectedCountry.country_code
                \o ret.res.val.area_code \o ret.res.val.number

(***************************************************************************)
(* C10: parse reports the first failing check of the pipeline: no country  *)
(* (and no usable default), else an unrecognized format, else an empty     *)
(* area code with no default area code (even when the number is empty      *)
(* too), else an empty number; and returns a Phone only when none fails.   *)
(***************************************************************************)
C10_FirstFailingCheck ==
    (ret.op = "parse" /\ ~IsBlank(text)) =>
        IF DetectedCountry = NoCountry
        THEN ret.res = Raise(MsgCountry)
        ELSE IF ~FormatRecognized
        THEN ret.res = Raise(MsgFormat \o DetectedCountry.name)
        ELSE IF Segmented.area_code = <<>> /\ default_area_code \in {None, <<>>}
        THEN ret.res = Raise(MsgArea)
        ELSE IF Segmented.number = <<>>
        THEN ret.res = Raise(MsgNumber)
        ELSE ret.res.kind = "phone"

\* area code and number both empty, no default area code: the area-code error
C10_Witness ==
    /\ ParseRaised(MsgArea)
    /\ FormatRecognized
    /\ Segmented.area_code = <<>>
    /\ Segmented.number = <<>>

(***************************************************************************)
(* C3: for every string d of digits, parse("00" + d) and parse("+" + d)    *)
(* end the same way: the same Phone, or the same error.                    *)
(***************************************************************************)
C3_DoubleZeroEquivalence ==
    (ret.op = "parse" /\ text # <<>> /\ text[1] = "+" /\ AllDigits(Tail(text))) =>
        ret.res = parse(<<"0", "0">> \o Tail(text))

(***************************************************************************)
(* _normalize on its own: a working text, normalized, and the result       *)
(* normalized again.                                                       *)
(***************************************************************************)
NormAlphabet == {"0", "1", "+", "(", ")", "a"}

InitNorm ==
    /\ text \in StrUpTo(NormAlphabet, MaxNormLen)
    /\ default_country_code = None
    /\ default_area_code = None
    /\ ret = NoCall
    /\ out = None
    /\ phone = None
    /\ fmt = None
    /\ frame = NoFrame
    /\ setter = IdleSetter

Normalize ==
    /\ ret.op = "none"
    /\ ret' = [op |-> "_normalize", res |-> [kind |-> "str", val |-> _normalize(text)]]
    /\ UNCHANGED <<text, default_country_code, default_area_code, out, phone, fmt, frame, setter>>

NormalizeAgain ==
    /\ ret.op = "_normalize"
    /\ out = None
    /\ out' = _normalize(ret.res.val)
    /\ UNCHANGED <<text, default_country_code, default_area_code, ret, phone, fmt, frame, setter>>

NextNorm == Normalize \/ NormalizeAgain

SpecNorm == InitNorm /\ [][NextNorm]_vars

(***************************************************************************)
(* C8: normalizing the output of _normalize again changes nothing.         *)
(***************************************************************************)
C8_NormalizeIdempotent ==
    (ret.op = "_normalize" /\ out # None) => out = ret.res.val

\* the text of the first match of COMMON_EXTRAS in s, <<>> when there is none
ExtrasFirstMatch(s) ==
    LET hits == {i \in 1..Len(s) : ExtrasMatchLen(s, i) > 0}
    IN  IF hits = {} THEN <<>>
        ELSE LET i == CHOOSE j \in hits : \A k \in hits : j <= k
             IN  SubSeq(s, i, i + ExtrasMatchLen(s, i) - 1)

\* at every turn of the loop the occurrence replaced is the match whose
\* replacement was looked up
RECURSIVE ReplacesOwnOccurrence(_, _)
ReplacesOwnOccurrence(matches, result) ==
    \/ matches = <<>>
    \/ /\ ExtrasFirstMatch(result) = Head(matches)
       /\ ReplacesOwnOccurrence(Tail(matches),
                                ExtrasSubFirst(EXTRA_REPLACEMENTS(Head(matches)), result))

(***************************************************************************)
(* C9: the output of _normalize holds digits and "+" only, and every       *)
(* substitution replaces the occurrence that the table was consulted for.  *)
(***************************************************************************)
C9_NormalizeStripsNoise ==
    ret.op = "_normalize" =>
        /\ \A i \in 1..Len(ret.res.val) : ret.res.val[i] \in Digits \cup {"+"}
        /\ ReplacesOwnOccurrence(ExtrasFindAll(text), text)

(***************************************************************************)
(* _extract_extension on its own, over raw texts that may end in a newline.*)
(***************************************************************************)
ExtAlphabet == {"1", "+", "x", "#", "-", "a", NL}

InitExt ==
    /\ text \in StrUpTo(ExtAlphabet, MaxExtLen)
    /\ default_country_code = None
    /\ default_area_code = None
    /\ ret = NoCall
    /\ out = None
    /\ phone = None
    /\ fmt = None
    /\ frame = NoFrame
    /\ setter = IdleSetter

ExtractExtension ==
    /\ ret.op = "none"
    /\ ret' = [op |-> "_extract_extension",
               res |-> [kind |-> "pair"] @@ _extract_extension(text)]
    /\ UNCHANGED <<text, default_country_code, default_area_code, out, phone, fmt, frame, setter>>

ParseRaw ==
    /\ ret.op = "none"
    /\ ret' = [op |-> "parse", res |-> parse(text)]
    /\ UNCHANGED <<text, default_country_code, default_area_code, out, phone, fmt, frame, setter>>

NextExt == ExtractExtension \/ ParseRaw

SpecExt == InitExt /\ [][NextExt]_vars

\* "+" digits "x" digits: the index of the "x", 0 when text has no such form
PlusDigitsXDigitsAt ==
    LET xs == {k \in 2..Len(text) :
                 /\ text[1] = "+"
                 /\ text[k] = "x"
                 /\ AllDigits(SubSeq(text, 2, k - 1))
                 /\ AllDigits(SubSeq(text, k + 1, Len(text)))}
    IN  IF xs = {} THEN 0 ELSE CHOOSE k \in xs : TRUE

\* the same area code and number, or the same error
SameAreaAndNumber(r1, r2) ==
    IF r1.kind = "phone" /\ r2.kind = "phone"
    THEN r1.val.area_code = r2.val.area_code /\ r1.val.number = r2.val.number
    ELSE r1 = r2

(***************************************************************************)
(* C5: the working text followed by the extension is the raw text; the     *)
(* extension is empty and the working text the raw text, or the extension  *)
(* is the suffix of the raw text that the marker pattern matches; and for  *)
(* "+" digits "x" digits, parse finds the area code and number it finds    *)
(* without the "x" digits suffix.                                          *)
(***************************************************************************)
C5_ExtensionSplitsRawText ==
    /\ ret.op = "_extract_extension" =>
          /\ ret.res.clean_number \o ret.res.extension = text
          /\ ret.res.extension = <<>> => ret.res.clean_number = text
          /\ ret.res.extension # <<>> =>
                \E i \in 1..Len(text) :
                    /\ ExtMatchesSpan(text, i, Len(text))
                    /\ ret.res.extension = SubSeq(text, i, Len(text))
    /\ (ret.op = "parse" /\ PlusDigitsXDigitsAt > 0) =>
          SameAreaAndNumber(ret.res, parse(SubSeq(text, 1, PlusDigitsXDigitsAt - 1)))

(***************************************************************************)
(* Phone.format on its own: a Phone such as parse builds (digits in the    *)
(* number and the area code, an extension that the marker pattern matches) *)
(* and a named format or a custom pattern.                                 *)
(***************************************************************************)
FmtAlphabet == {"%", "x", "a", "+"}
ExtFieldAlphabet == {"x", "%", "a", "1"}

\* the extensions that _extract_extension can return
FmtExtensions ==
    {<<>>} \cup {e \in StrUpTo(ExtFieldAlphabet, MaxFieldLen + 1) :
                    e # <<>> /\ _extract_extension(e).extension = e}

FmtPhones ==
    {Phone(n, a, <<"+", "1">>, e) :
        n \in { <<"5">>, <<"5", "1", "2", "5">> }, a \in { <<>>, <<"9">> }, e \in FmtExtensions}

FmtArgs ==
    {NameDefault, NameDefaultWithExtension, NameEurope, NameUs}
        \cup StrUpTo(FmtAlphabet, MaxFmtLen)

InitFormat ==
    /\ text = None
    /\ default_country_code = None
    /\ default_area_code = None
    /\ ret = NoCall
    /\ out = None
    /\ phone \in FmtPhones
    /\ fmt \in FmtArgs
    /\ frame = NoFrame
    /\ setter = IdleSetter

Format ==
    /\ out = None
    /\ out' = format(phone, fmt)
    /\ UNCHANGED <<text, default_country_code, default_area_code, ret, phone, fmt, frame, setter>>

NextFormat == Format

SpecFormat == InitFormat /\ [][NextFormat]_vars

\* the pattern with every token, left to right, replaced by its field and
\* every other character kept
RECURSIVE SubstituteTokens(_, _, _)
SubstituteTokens(self, pattern, i) ==
    IF i > Len(pattern) THEN <<>>
    ELSE IF i < Len(pattern) /\ pattern[i] = "%" /\ pattern[i + 1] \in FormatTokenChars
         THEN Replacement(self, SubSeq(pattern, i, i + 1))
              \o SubstituteTokens(self, pattern, i + 2)
         ELSE <<pattern[i]>> \o SubstituteTokens(self, pattern, i + 1)

(***************************************************************************)
(* C7: format returns the pattern with each token occurrence replaced once *)
(* by its own field, the other characters in place, inserted text never    *)
(* taken for a token, and then a leading "+ +" or "++" collapsed to "+".   *)
(***************************************************************************)
C7_TokenSubstitution ==
    out # None =>
        out = _remove_useless_plus(SubstituteTokens(phone, NAMED_FORMATS(fmt), 1))

(***************************************************************************)
(* parse in one thread, the setters in another.  A setter writes its       *)
(* global inside "with _defaults_lock"; parse takes no lock, so each read  *)
(* of a global in parse is a step that a setter's write may precede or     *)
(* follow.  _split_to_parts reads _default_country_code once (line 339);   *)
(* parse reads _default_area_code at line 247 and again at line 248.       *)
(***************************************************************************)
MaxConcLen == 3

InitConc ==
    /\ text \in StrUpTo(TextAlphabet, MaxConcLen)
    /\ default_country_code = None
    /\ default_area_code = None
    /\ ret = NoCall
    /\ out = None
    /\ phone = None
    /\ fmt = None
    /\ frame = NoFrame
    /\ setter = IdleSetter

\* the setter thread enters "with _defaults_lock": the lock is free
SetterAcquire(name, code) ==
    /\ setter.pc = "idle"
    /\ setter' = [pc |-> "locked", name |-> name, code |-> code]
    /\ UNCHANGED <<text, default_country_code, default_area_code, ret, out, phone, fmt,
                   frame>>

\* line 60, and the lock released
SetterWriteCountry ==
    /\ setter.pc = "locked"
    /\ setter.name = "set_default_country_code"
    /\ default_country_code' = setter.code
    /\ setter' = IdleSetter
    /\ UNCHANGED <<text, default_area_code, ret, out, phone, fmt, frame>>

\* line 82, and the lock released
SetterWriteArea ==
    /\ setter.pc = "locked"
    /\ setter.name = "set_default_area_code"
    /\ default_area_code' = setter.code
    /\ setter' = IdleSetter
    /\ UNCHANGED <<text, default_country_code, ret, out, phone, fmt, frame>>

Running == [op |-> "parse", res |-> [kind |-> "running"]]

\* lines 226-244: up to the parts, with the one read of _default_country_code
ParseBegin ==
    /\ frame.pc \in {"idle", "done"}
    /\ IF IsBlank(text)
       THEN /\ ret' = [op |-> "parse", res |-> [kind |-> "none"]]
            /\ frame' = [NoFrame EXCEPT !.pc = "done"]
       ELSE LET ex == _extract_extension(text)
                parts == _split_to_parts(_normalize(ex.clean_number))
            IN  IF parts.kind = "raise"
                THEN /\ ret' = [op |-> "parse", res |-> parts]
                     /\ frame' = [NoFrame EXCEPT !.pc = "done"]
                ELSE IF parts.country_code = <<>> /\ ~Truthy(default_country_code)
                THEN /\ ret' = [op |-> "parse", res |-> Raise(MsgCountryOrDefault)]
                     /\ frame' = [NoFrame EXCEPT !.pc = "done"]
                ELSE /\ ret' = Running
                     /\ frame' = [pc |-> "L246", number |-> parts.number,
                                  area_code |-> parts.area_code,
                                  country_code |-> IF parts.country_code = <<>>
                                                   THEN <<"+">> \o default_country_code
                                                   ELSE parts.country_code,
                                  extension |-> ex.extension]
    /\ UNCHANGED <<text, default_country_code, default_area_code, out, phone, fmt, setter>>

\* lines 246-247 and 249-251: the test of area_code and of _default_area_code
ParseTestArea ==
    /\ frame.pc = "L246"
    /\ IF frame.area_code # <<>>
       THEN frame' = [frame EXCEPT !.pc = "L253"] /\ ret' = ret
       ELSE IF Truthy(default_area_code)
       THEN frame' = [frame EXCEPT !.pc = "L248"] /\ ret' = ret
       ELSE /\ ret' = [op |-> "parse", res |-> Raise(MsgArea)]
            /\ frame' = [NoFrame EXCEPT !.pc = "done"]
    /\ UNCHANGED <<text, default_country_code, default_area_code, out, phone, fmt, setter>>

\* line 248: area_code = _default_area_code, the global read again
ParseUseArea ==
    /\ frame.pc = "L248"
    /\ frame' = [frame EXCEPT !.pc = "L253", !.area_code = default_area_code]
    /\ UNCHANGED <<text, default_country_code, default_area_code, ret, out, phone, fmt,
                   setter>>

\* lines 253-262: the number check and the Phone
ParseFinish ==
    /\ frame.pc = "L253"
    /\ ret' = [op |-> "parse",
               res |-> IF frame.number = <<>> THEN Raise(MsgNumber)
                       ELSE [kind |-> "phone",
                             val |-> Phone(frame.number, frame.area_code,
                                           frame.country_code, frame.extension)]]
    /\ frame' = [NoFrame EXCEPT !.pc = "done"]
    /\ UNCHANGED <<text, default_country_code, default_area_code, out, phone, fmt, setter>>

NextConc ==
    \/ \E code \in CountryCodeArgs : SetterAcquire("set_default_country_code", code)
    \/ \E code \in AreaCodeArgs : SetterAcquire("set_default_area_code", code)
    \/ SetterWriteCountry
    \/ SetterWriteArea
    \/ ParseBegin
    \/ ParseTestArea
    \/ ParseUseArea
    \/ ParseFinish

SpecConc == InitConc /\ [][NextConc]_vars

(***************************************************************************)
(* C11: with a setter running in another thread, every Phone that parse    *)
(* returns has a non-empty area_code.                                      *)
(***************************************************************************)
C11_ConcurrentAreaCodeNonEmpty ==
    (ret.op = "parse" /\ ret.res.kind = "phone") => ret.res.val.area_code # <<>>

====
